---- MODULE Spec2Model ----
(***************************************************************************)
(* The hand-written lexer of rust-decaf (src/src/lexer.rs): the span       *)
(* operations it relies on, the rule matchers, the dispatcher `token`, the *)
(* pull-based driver `tokens` and the diagnostics renderer `log_err`, with *)
(* the lexer front-end (src/src/bin/decafcc/lexer/mod.rs) as the consumer  *)
(* that pulls the stream.                                                  *)
(* A byte is an integer 0..255, the buffer a sequence of bytes, a span a   *)
(* pair of offsets [lo, hi) into the buffer.                               *)
(***************************************************************************)
EXTENDS Integers, Sequences, FiniteSets, TLC

VARIABLES buf, text, phase, raw, out, logged, last,
          stdout, stderr, err_count, status

vars == <<buf, text, phase, raw, out, logged, last,
          stdout, stderr, err_count, status>>

(***************************************************************************)
(* Bounds of the model and the bytes the inputs are drawn from.            *)
(***************************************************************************)
MaxLen == 4
MaxStrLen == 5
MaxCmtLen == 5
MaxCharLen == 5
MaxIntLen == 5
MaxRunLen == 4
MaxTailLen == 2
MaxSymLen == 3
MaxDelimLen == 2

NL == 10
DQUOTE == 34
SQUOTE == 39
STAR == 42
SLASH == 47
ZERO == 48
BACKSLASH == 92
LOWER_N == 110
LOWER_T == 116
LOWER_X == 120
TAB == 9

\* one byte of every class the dispatcher tells apart; 97 is the letter a,
\* 128 a byte outside the lexer's legal set
Alphabet == {NL, DQUOTE, SQUOTE, STAR, SLASH, ZERO, BACKSLASH, 97, 128}
\* the bytes the string matcher and its second pass tell apart
StringBytes == {DQUOTE, SQUOTE, BACKSLASH, 97}
\* the bytes the comment skippers tell apart
CommentBytes == {SLASH, STAR, 97, NL}

\* the bytes the character-literal matcher tells apart
CharBytes == {SQUOTE, BACKSLASH, LOWER_N, LOWER_T, DQUOTE, 97}
\* the bytes the integer matcher tells apart: the digits 0 and 1, x, the hex
\* letter a (97) and the letter g (103), which is no hex digit
IntBytes == {ZERO, 49, LOWER_X, 97, 103}
\* bytes in and out of the legal set, with and without ASCII whitespace:
\* 128 (neither), form feed 12 (whitespace, not legal), space 32 and tab
\* (both), the letter a (legal only)
RunBytes == {128, 12, 32, TAB, 97}

\* the fourteen reserved spellings, by the token they stand for
KeywordSpellings ==
    [Import   |-> <<105, 109, 112, 111, 114, 116>>,
     If       |-> <<105, 102>>,
     Else     |-> <<101, 108, 115, 101>>,
     While    |-> <<119, 104, 105, 108, 101>>,
     For      |-> <<102, 111, 114>>,
     Break    |-> <<98, 114, 101, 97, 107>>,
     Continue |-> <<99, 111, 110, 116, 105, 110, 117, 101>>,
     Return   |-> <<114, 101, 116, 117, 114, 110>>,
     Int      |-> <<105, 110, 116>>,
     Bool     |-> <<98, 111, 111, 108>>,
     True     |-> <<116, 114, 117, 101>>,
     False    |-> <<102, 97, 108, 115, 101>>,
     Void     |-> <<118, 111, 105, 100>>,
     Len      |-> <<108, 101, 110>>]

\* what may follow a word: the letter y (121), an underscore (95), a digit,
\* a space (32)
TailBytes == {121, 95, ZERO, 32}

\* the bytes the two-byte operators are made of (! & + - < = > |), a byte
\* that is no operator (35, #) and the letter a
OperatorBytes == {33, 38, 43, 45, 60, 61, 62, 124, 35, 97}

\* the bytes that are one-byte operators or delimiters only
DelimiterBytes == {37, 40, 41, STAR, 44, SLASH, 58, 59, 63, 91, 93, 123, 125}

SeqsUpTo(S, n) == UNION {[1..k -> S] : k \in 0..n}

\* every non-empty prefix of a reserved spelling, followed by a short tail
WordInputs ==
    UNION {{SubSeq(KeywordSpellings[kw], 1, n) \o tl :
                n \in 1..Len(KeywordSpellings[kw]),
                tl \in SeqsUpTo(TailBytes, MaxTailLen)} :
           kw \in DOMAIN KeywordSpellings}

Inputs ==
    SeqsUpTo(Alphabet, MaxLen) \cup SeqsUpTo(StringBytes, MaxStrLen)
        \cup SeqsUpTo(CommentBytes, MaxCmtLen)
        \cup SeqsUpTo(CharBytes, MaxCharLen)
        \cup SeqsUpTo(IntBytes, MaxIntLen)
        \cup SeqsUpTo(RunBytes, MaxRunLen)
        \cup WordInputs
        \cup SeqsUpTo(OperatorBytes, MaxSymLen)
        \cup SeqsUpTo(OperatorBytes \cup DelimiterBytes, MaxDelimLen)

(***************************************************************************)
(* Span: a view [lo, hi) of buf.  These operations live in the crate's     *)
(* span module; they are modelled from the specification's data model and  *)
(* from the way lexer.rs and its unit tests use them.                      *)
(***************************************************************************)
Span(lo, hi) == [lo |-> lo, hi |-> hi]

Byte == 0..255

source == Span(0, Len(buf))

len(s) == s.hi - s.lo

is_empty(s) == s.hi = s.lo

\* s[i], 0-based
at(s, i) == buf[s.lo + i + 1]

fragment(s) == SubSeq(buf, s.lo + 1, s.hi)

\* (s[..n], s[n..])
split_at(s, n) == <<Span(s.lo, s.lo + n), Span(s.lo + n, s.hi)>>

starts_with(s, pat) ==
    /\ len(s) >= Len(pat)
    /\ \A i \in 1..Len(pat) : at(s, i - 1) = pat[i]

ends_with(s, pat) ==
    /\ len(s) >= Len(pat)
    /\ \A i \in 1..Len(pat) : buf[s.hi - Len(pat) + i] = pat[i]

Min(S) == CHOOSE x \in S : \A y \in S : x <= y

NoSplit == [some |-> FALSE]

\* split before the first byte satisfying the predicate, given as the set of
\* bytes that satisfy it; nothing when no byte does
split_once(s, pred) ==
    LET hits == {i \in 0..(len(s) - 1) : at(s, i) \in pred}
    IN  IF hits = {} THEN NoSplit
        ELSE [some |-> TRUE, pair |-> split_at(s, Min(hits))]

\* offset of the first occurrence of pat in s, -1 when there is none
find(s, pat) ==
    LET hits == {i \in 0..(len(s) - Len(pat)) :
                    \A j \in 1..Len(pat) : at(s, i + j - 1) = pat[j]}
    IN  IF hits = {} THEN -1 ELSE Min(hits)

\* 1-based (line, column) of the first byte of s
position(s) ==
    LET nls == {i \in 1..s.lo : buf[i] = NL}
        line == Cardinality(nls) + 1
        bol == IF nls = {} THEN 0 ELSE CHOOSE i \in nls : \A j \in nls : j <= i
    IN  <<line, s.lo - bol + 1>>

(***************************************************************************)
(* Token results.  A Result is Ok(token) or Err(error); val is the byte a  *)
(* CharLiteral, InvalidChar, InvalidEscape or UnexpectedChar carries, -1   *)
(* for the kinds that carry none.                                          *)
(***************************************************************************)
Ok(kind) == [ok |-> TRUE, kind |-> kind, val |-> -1]
OkV(kind, v) == [ok |-> TRUE, kind |-> kind, val |-> v]
Err(kind) == [ok |-> FALSE, kind |-> kind, val |-> -1]
ErrV(kind, v) == [ok |-> FALSE, kind |-> kind, val |-> v]

into_spanned(s, v) == [res |-> v, span |-> s]

\* what a matcher returns: it declines, or yields (item, remainder), or aborts
Declined == [tag |-> "None"]
Aborted == [tag |-> "Panic"]
Matched(item, rem) == [tag |-> "Some", item |-> item, rem |-> rem]

empty_tail(s) == split_at(s, len(s))[2]

(***************************************************************************)
(* Byte classes of the Rust standard library, as lexer.rs uses them.       *)
(***************************************************************************)
is_ascii_digit(c) == c \in 48..57
is_ascii_alphabetic(c) == c \in 65..90 \/ c \in 97..122
is_ascii_alphanumeric(c) == is_ascii_digit(c) \/ is_ascii_alphabetic(c)
is_ascii_hexdigit(c) == is_ascii_digit(c) \/ c \in 65..70 \/ c \in 97..102
is_ascii_whitespace(c) == c \in {32, 9, 10, 12, 13}

is_escaped_char(c) == c \in {LOWER_N, LOWER_T, BACKSLASH, SQUOTE, DQUOTE}

is_dcf_char(c) == c \in 32..33 \/ c \in 35..38 \/ c \in 40..91 \/ c \in 93..126

is_ascii(c) == c \in 32..126 \/ c \in {9, 10, 13}

legal_bytes == {c \in Byte : is_ascii(c)}

(***************************************************************************)
(* get_string_errors: the second pass over a string literal's fragment.    *)
(* It walks the first len-1 bytes (the opening quote is skipped because    *)
(* escape_next starts TRUE and a quote is a legal escape), then appends    *)
(* UnterminatedString when the fragment ends in \" or does not end in ".   *)
(***************************************************************************)
RECURSIVE string_errors_from(_, _, _)
string_errors_from(s, i, escape_next) ==
    IF i >= len(s) - 1 THEN <<>>
    ELSE LET c == at(s, i)
             one == Span(s.lo + i, s.lo + i + 1)
         IN  IF escape_next
             THEN (IF ~is_escaped_char(c)
                   THEN <<into_spanned(one, ErrV("InvalidEscape", c))>>
                   ELSE <<>>) \o string_errors_from(s, i + 1, FALSE)
             ELSE IF c = BACKSLASH
             THEN string_errors_from(s, i + 1, TRUE)
             ELSE (IF ~is_dcf_char(c)
                   THEN <<into_spanned(one, ErrV("InvalidChar", c))>>
                   ELSE <<>>) \o string_errors_from(s, i + 1, FALSE)

string_terminated(s) ==
    IF ends_with(s, <<BACKSLASH, DQUOTE>>) \/ ~ends_with(s, <<DQUOTE>>)
    THEN <<into_spanned(s, Err("UnterminatedString"))>>
    ELSE <<>>

get_string_errors(s) == string_errors_from(s, 0, TRUE) \o string_terminated(s)

(***************************************************************************)
(* The rule matchers.                                                      *)
(***************************************************************************)
two_byte_symbol(ch) ==
    CASE ch = <<60, 61>> -> "LessEqual"
      [] ch = <<62, 61>> -> "GreaterEqual"
      [] ch = <<61, 61>> -> "EqualEqual"
      [] ch = <<33, 61>> -> "NotEqual"
      [] ch = <<43, 61>> -> "AddAssign"
      [] ch = <<45, 61>> -> "SubAssign"
      [] ch = <<38, 38>> -> "And"
      [] ch = <<124, 124>> -> "Or"
      [] ch = <<45, 45>> -> "Decrement"
      [] ch = <<43, 43>> -> "Increment"
      [] OTHER -> "none"

one_byte_symbol(c) ==
    CASE c = 43 -> "Plus"
      [] c = 45 -> "Minus"
      [] c = 42 -> "Star"
      [] c = 47 -> "Slash"
      [] c = 37 -> "Percent"
      [] c = 33 -> "Not"
      [] c = 59 -> "Semicolon"
      [] c = 60 -> "Less"
      [] c = 62 -> "Greater"
      [] c = 61 -> "Assign"
      [] c = 123 -> "CurlyLeft"
      [] c = 125 -> "CurlyRight"
      [] c = 91 -> "SquareLeft"
      [] c = 93 -> "SquareRight"
      [] c = 44 -> "Comma"
      [] c = 40 -> "LeftParen"
      [] c = 41 -> "RightParen"
      [] c = 63 -> "Question"
      [] c = 58 -> "Colon"
      [] OTHER -> "none"

symbol_two_of(ch, rem) ==
    IF two_byte_symbol(fragment(ch)) = "none" THEN Declined
    ELSE Matched(into_spanned(ch, Ok(two_byte_symbol(fragment(ch)))), rem)

symbol_two(span) ==
    IF len(span) > 1
    THEN symbol_two_of(split_at(span, 2)[1], split_at(span, 2)[2])
    ELSE Declined

symbol_one_of(ch, rem, c) ==
    IF one_byte_symbol(c) # "none"
    THEN Matched(into_spanned(ch, Ok(one_byte_symbol(c))), rem)
    ELSE IF ~is_ascii_alphanumeric(c)
    THEN Matched(into_spanned(ch, ErrV("UnexpectedChar", c)), rem)
    ELSE Declined

symbol_one(span) ==
    symbol_one_of(split_at(span, 1)[1], split_at(span, 1)[2], at(span, 0))

\* a.or_else(b): b is tried only when a declined
or_else(first, second) == IF first.tag = "None" THEN second ELSE first

\* symbol with the one-byte table tried first
symbol_one_first(span) == or_else(symbol_one(span), symbol_two(span))

symbol(span) == or_else(symbol_two(span), symbol_one(span))

keyword(frag) ==
    CASE frag = <<105, 109, 112, 111, 114, 116>> -> "Import"
      [] frag = <<118, 111, 105, 100>> -> "Void"
      [] frag = <<105, 110, 116>> -> "Int"
      [] frag = <<98, 111, 111, 108>> -> "Bool"
      [] frag = <<105, 102>> -> "If"
      [] frag = <<101, 108, 115, 101>> -> "Else"
      [] frag = <<102, 111, 114>> -> "For"
      [] frag = <<119, 104, 105, 108, 101>> -> "While"
      [] frag = <<98, 114, 101, 97, 107>> -> "Break"
      [] frag = <<99, 111, 110, 116, 105, 110, 117, 101>> -> "Continue"
      [] frag = <<114, 101, 116, 117, 114, 110>> -> "Return"
      [] frag = <<108, 101, 110>> -> "Len"
      [] frag = <<116, 114, 117, 101>> -> "True"
      [] frag = <<102, 97, 108, 115, 101>> -> "False"
      [] OTHER -> "Identifier"

not_ident_byte == {c \in Byte : ~is_ascii_alphanumeric(c) /\ c # 95}

\* unwrap_or: the split when there is one, else (whole span, empty tail)
split_or_all(sp, span) ==
    IF sp.some THEN sp.pair ELSE <<span, empty_tail(span)>>

identifier_of(pr) ==
    Matched(into_spanned(pr[1], Ok(keyword(fragment(pr[1])))), pr[2])

\* identifier with the run cut at the first byte that is not alphanumeric
identifier_no_underscore(span) ==
    IF ~is_ascii_alphabetic(at(span, 0)) /\ at(span, 0) # 95
    THEN Declined
    ELSE identifier_of(split_or_all(split_once(span,
             {c \in Byte : ~is_ascii_alphanumeric(c)}), span))

identifier(span) ==
    IF ~is_ascii_alphabetic(at(span, 0)) /\ at(span, 0) # 95
    THEN Declined
    ELSE identifier_of(split_or_all(split_once(span, not_ident_byte), span))

not_whitespace == {c \in Byte : ~is_ascii_whitespace(c)}

skip_spaces_of(pr) == Matched(into_spanned(pr[1], Ok("Space")), pr[2])

skip_spaces(span) ==
    IF is_ascii_whitespace(at(span, 0))
    THEN skip_spaces_of(split_or_all(split_once(span, not_whitespace), span))
    ELSE Declined

is_newline == {c \in Byte : c = NL}

skip_line_comment_of(pr) ==
    Matched(into_spanned(pr[1], Ok("LineComment")), pr[2])

skip_line_comment(span) ==
    IF starts_with(span, <<SLASH, SLASH>>)
    THEN skip_line_comment_of(split_or_all(split_once(span, is_newline), span))
    ELSE Declined

\* skip_block_comment_of with the unterminated case leaving the cursor in place
skip_block_comment_of_stuck(span, i) ==
    IF i >= 0
    THEN Matched(into_spanned(span, Ok("BlockComment")),
                 split_at(span, i + 4)[2])
    ELSE Matched(into_spanned(span, Err("UnterminatedComment")), span)

\* i: where */ was found in the bytes after the opener, -1 when nowhere
skip_block_comment_of(span, i) ==
    IF i >= 0
    THEN Matched(into_spanned(span, Ok("BlockComment")),
                 split_at(span, i + 4)[2])
    ELSE Matched(into_spanned(span, Err("UnterminatedComment")),
                 empty_tail(span))

\* skip_block_comment with the closer searched from the * of the opener
skip_block_comment_reuses_star(span) ==
    IF starts_with(span, <<SLASH, STAR>>)
    THEN skip_block_comment_of(span,
             find(split_at(span, 1)[2], <<STAR, SLASH>>) - 1)
    ELSE Declined

skip_block_comment(span) ==
    IF starts_with(span, <<SLASH, STAR>>)
    THEN skip_block_comment_of(span, find(split_at(span, 2)[2], <<STAR, SLASH>>))
    ELSE Declined

not_hexdigit == {c \in Byte : ~is_ascii_hexdigit(c)}

not_digit == {c \in Byte : ~is_ascii_digit(c)}

\* lit: the hex digits found after 0x (or the unwrap_or stand-in for them)
hex_literal_of(span, lit) ==
    IF is_empty(lit)
    THEN Matched(into_spanned(split_at(span, 2)[1], Err("EmptyHexLiteral")),
                 split_at(span, 2)[2])
    ELSE Matched(into_spanned(split_at(span, len(lit) + 2)[1], Ok("HexLiteral")),
                 split_at(span, len(lit) + 2)[2])

hex_digits(sp, span) ==
    IF sp.some THEN sp.pair[1] ELSE split_at(span, len(span) - 2)[1]

decimal_literal_of(pr) ==
    Matched(into_spanned(pr[1], Ok("DecimalLiteral")), pr[2])

\* int_literal with the digits after 0x cut at the first non-decimal byte
int_literal_decimal_hex(span) ==
    IF is_ascii_digit(at(span, 0))
    THEN IF starts_with(span, <<ZERO, LOWER_X>>)
         THEN hex_literal_of(span,
                  hex_digits(split_once(split_at(span, 2)[2], not_digit), span))
         ELSE decimal_literal_of(split_or_all(split_once(span, not_digit), span))
    ELSE Declined

int_literal(span) ==
    IF is_ascii_digit(at(span, 0))
    THEN IF starts_with(span, <<ZERO, LOWER_X>>)
         THEN hex_literal_of(span,
                  hex_digits(split_once(split_at(span, 2)[2], not_hexdigit), span))
         ELSE decimal_literal_of(split_or_all(split_once(span, not_digit), span))
    ELSE Declined

\* escaped_char with the escape letter kept instead of resolved
escaped_char_unresolved(span) ==
    IF at(span, 3) # SQUOTE
    THEN into_spanned(span, Err("UnterminatedChar"))
    ELSE IF is_escaped_char(at(span, 2))
    THEN into_spanned(span, OkV("CharLiteral", at(span, 2)))
    ELSE into_spanned(span, ErrV("InvalidEscape", at(span, 2)))

escaped_char(span) ==
    IF at(span, 3) # SQUOTE
    THEN into_spanned(span, Err("UnterminatedChar"))
    ELSE CASE at(span, 2) = LOWER_N -> into_spanned(span, OkV("CharLiteral", NL))
           [] at(span, 2) = LOWER_T -> into_spanned(span, OkV("CharLiteral", TAB))
           [] at(span, 2) = BACKSLASH ->
                into_spanned(span, OkV("CharLiteral", BACKSLASH))
           [] at(span, 2) = SQUOTE -> into_spanned(span, OkV("CharLiteral", SQUOTE))
           [] at(span, 2) = DQUOTE -> into_spanned(span, OkV("CharLiteral", DQUOTE))
           [] OTHER -> into_spanned(span, ErrV("InvalidEscape", at(span, 2)))

dcf_char(span) ==
    IF is_dcf_char(at(span, 1))
    THEN into_spanned(span, OkV("CharLiteral", at(span, 1)))
    ELSE into_spanned(span, ErrV("InvalidChar", at(span, 1)))

char_literal(span) ==
    IF len(span) < 3 \/ ~starts_with(span, <<SQUOTE>>)
    THEN Declined
    ELSE IF at(span, 1) = BACKSLASH
    THEN IF len(span) < 4
         THEN Matched(into_spanned(span, Err("UnterminatedChar")),
                      empty_tail(span))
         ELSE Matched(escaped_char(split_at(span, 4)[1]), split_at(span, 4)[2])
    ELSE IF at(span, 1) = SQUOTE
    THEN Matched(into_spanned(split_at(span, 2)[1], Err("EmptyChar")),
                 split_at(span, 2)[2])
    ELSE IF at(span, 2) # SQUOTE
    THEN Matched(into_spanned(split_at(span, 2)[1], Err("UnterminatedChar")),
                 split_at(span, 2)[2])
    ELSE Matched(dcf_char(split_at(span, 3)[1]), split_at(span, 3)[2])

\* the take_while closure of string_literal, run over the bytes of s from
\* offset i: the number of bytes taken
RECURSIVE string_take(_, _, _, _)
string_take(s, i, last_char, break_next) ==
    IF i >= len(s) THEN i
    ELSE IF break_next THEN i
    ELSE IF at(s, i) = DQUOTE /\ last_char # BACKSLASH
    THEN string_take(s, i + 1, last_char, TRUE)
    ELSE string_take(s, i + 1, at(s, i), FALSE)

string_literal_of(lit, rem) ==
    IF get_string_errors(lit) # <<>>
    THEN Matched(into_spanned(lit, Err("StringLiteral")), rem)
    ELSE Matched(into_spanned(lit, Ok("StringLiteral")), rem)

\* string_split with the closing quote left in the remainder
string_split_short(span, n) ==
    string_literal_of(split_at(span, n)[1], split_at(span, n - 1)[2])

string_split(span, n) == string_literal_of(split_at(span, n)[1], split_at(span, n)[2])

string_literal(span) ==
    IF starts_with(span, <<DQUOTE>>)
    THEN string_split(span, string_take(span, 0, BACKSLASH, FALSE))
    ELSE Declined

\* sp: the split before the first legal byte; the unwrap aborts on nothing
non_ascii_of(sp) ==
    IF ~sp.some THEN Aborted
    ELSE IF is_empty(sp.pair[1]) THEN Declined
    ELSE Matched(into_spanned(sp.pair[1], Err("NonAsciiChars")), sp.pair[2])

\* non_ascii_graphic_chars with the run cut at the first legal byte that is
\* no whitespace
non_ascii_graphic_chars_greedy(span) ==
    non_ascii_of(split_once(span, legal_bytes \cap not_whitespace))

non_ascii_graphic_chars(span) == non_ascii_of(split_once(span, legal_bytes))

(***************************************************************************)
(* The dispatcher: the matchers in their fixed order, first success wins.  *)
(***************************************************************************)
token(span) ==
    IF is_empty(span) THEN Declined
    ELSE or_else(or_else(or_else(or_else(or_else(or_else(or_else(or_else(
             non_ascii_graphic_chars(span),
             skip_spaces(span)),
             skip_line_comment(span)),
             skip_block_comment(span)),
             identifier(span)),
             int_literal(span)),
             char_literal(span)),
             string_literal(span)),
             symbol(span))

(***************************************************************************)
(* log_err: the diagnostics renderer.  A line is the (line, column) of the *)
(* error's span and its message; an aggregate StringLiteral error is       *)
(* rendered by running get_string_errors again, one line per sub-error.    *)
(***************************************************************************)
is_continuation(c) == c \in 128..191

\* String::from_utf8 accepts exactly the well-formed UTF-8 sequences
RECURSIVE utf8_valid_from(_, _)
utf8_valid_from(b, i) ==
    IF i > Len(b) THEN TRUE
    ELSE IF b[i] < 128 THEN utf8_valid_from(b, i + 1)
    ELSE IF b[i] \in 194..223
    THEN i + 1 <= Len(b) /\ is_continuation(b[i + 1]) /\ utf8_valid_from(b, i + 2)
    ELSE IF b[i] \in 224..239
    THEN /\ i + 2 <= Len(b)
         /\ b[i + 1] \in (IF b[i] = 224 THEN 160..191
                          ELSE IF b[i] = 237 THEN 128..159 ELSE 128..191)
         /\ is_continuation(b[i + 2])
         /\ utf8_valid_from(b, i + 3)
    ELSE IF b[i] \in 240..244
    THEN /\ i + 3 <= Len(b)
         /\ b[i + 1] \in (IF b[i] = 240 THEN 144..191
                          ELSE IF b[i] = 244 THEN 128..143 ELSE 128..191)
         /\ is_continuation(b[i + 2])
         /\ is_continuation(b[i + 3])
         /\ utf8_valid_from(b, i + 4)
    ELSE FALSE

\* a digit is printed as itself, any other byte as \xHH
print_u8(c) ==
    IF is_ascii_digit(c) THEN <<"char", c>> ELSE <<"hex", c \div 16, c % 16>>

Line(e, msg, arg) == [pos |-> position(e.span), msg |-> msg, arg |-> arg]

handle_single_error(e) ==
    CASE e.res.kind = "EmptyHexLiteral" ->
            Line(e, "invalid hex literal", fragment(e.span))
      [] e.res.kind = "EmptyChar" -> Line(e, "empty char literal", <<>>)
      [] e.res.kind = "InvalidEscape" ->
            Line(e, "invalid escape sequence", print_u8(e.res.val))
      [] e.res.kind = "InvalidChar" ->
            Line(e, "invalid character literal", print_u8(e.res.val))
      [] e.res.kind = "UnexpectedChar" ->
            Line(e, "unexpected character", print_u8(e.res.val))
      [] e.res.kind = "UnterminatedString" ->
            Line(e, "unterminated string literal", <<>>)
      [] e.res.kind = "UnterminatedChar" ->
            Line(e, "unterminated char literal", <<>>)
      [] e.res.kind = "UnterminatedComment" ->
            Line(e, "unterminated block comment", <<>>)
      [] e.res.kind = "NonAsciiChars" ->
            Line(e, "non-ascii characters", fragment(e.span))

\* the unwrap of String::from_utf8 aborts on a fragment that is not UTF-8
handle_panics(e) ==
    /\ e.res.kind \in {"EmptyHexLiteral", "NonAsciiChars"}
    /\ ~utf8_valid_from(fragment(e.span), 1)

RECURSIVE for_each_error(_)
for_each_error(errs) ==
    IF errs = <<>> THEN <<>>
    ELSE <<handle_single_error(Head(errs))>> \o for_each_error(Tail(errs))

log_err(e) ==
    IF e.res.kind = "StringLiteral"
    THEN [panic |-> FALSE, lines |-> for_each_error(get_string_errors(e.span))]
    ELSE IF handle_panics(e) THEN [panic |-> TRUE, lines |-> <<>>]
    ELSE [panic |-> FALSE, lines |-> <<handle_single_error(e)>>]

(***************************************************************************)
(* The driver `tokens`.  One pull of the returned iterator runs the        *)
(* from_fn closure until the filter lets an item through, hands an error   *)
(* item to the reporting callback, and, once the closure has returned      *)
(* None, yields the Eof item built from the original text.                 *)
(***************************************************************************)
\* is_trivia with BlockComment left out of the filter's pattern
is_trivia_keeps_block(res) == res.ok /\ res.kind \in {"Space", "LineComment"}

is_trivia(res) == res.ok /\ res.kind \in {"Space", "LineComment", "BlockComment"}

\* the from_fn closure on the remaining text t
from_fn(t) == IF is_empty(t) THEN Declined ELSE token(t)

\* Filter::next: acc collects what the closure produced on the way
RECURSIVE filter_next(_, _)
filter_step(t, acc, r) ==
    IF r.tag # "Some"
    THEN [tag |-> r.tag, text |-> t, raws |-> acc]
    ELSE IF is_trivia(r.item.res)
    THEN filter_next(r.rem, Append(acc, [item |-> r.item, inp |-> t, rem |-> r.rem]))
    ELSE [tag |-> "Some", item |-> r.item, text |-> r.rem,
          raws |-> Append(acc, [item |-> r.item, inp |-> t, rem |-> r.rem])]

filter_next(t, acc) == filter_step(t, acc, from_fn(t))

eof_item == into_spanned(split_at(source, len(source))[2], Ok("Eof"))

NoItem == [some |-> FALSE]
SomeItem(item) == [some |-> TRUE, item |-> item]

Init ==
    /\ buf \in Inputs
    /\ text = source
    /\ phase = "lexing"
    /\ raw = <<>>
    /\ out = <<>>
    /\ logged = <<>>
    /\ last = NoItem
    /\ stdout = <<>>
    /\ stderr = <<>>
    /\ err_count = 0
    /\ status = "running"

\* a pull that surfaces a well-formed token
SurfaceToken(r) ==
    /\ r.tag = "Some"
    /\ r.item.res.ok
    /\ text' = r.text
    /\ raw' = raw \o r.raws
    /\ out' = Append(out, r.item)
    /\ last' = SomeItem(r.item)
    /\ UNCHANGED <<buf, phase, logged>>

PullToken == phase = "lexing" /\ SurfaceToken(filter_next(text, <<>>))

\* SurfaceError with the inspect stage left out
SurfaceError_unlogged(r) ==
    /\ r.tag = "Some"
    /\ ~r.item.res.ok
    /\ text' = r.text
    /\ raw' = raw \o r.raws
    /\ out' = Append(out, r.item)
    /\ last' = SomeItem(r.item)
    /\ UNCHANGED <<buf, phase, logged>>

\* a pull that surfaces an error item: inspect hands it to the callback
SurfaceError(r) ==
    /\ r.tag = "Some"
    /\ ~r.item.res.ok
    /\ text' = r.text
    /\ raw' = raw \o r.raws
    /\ logged' = Append(logged, into_spanned(r.item.span, r.item.res))
    /\ out' = Append(out, r.item)
    /\ last' = SomeItem(r.item)
    /\ UNCHANGED <<buf, phase>>

PullError == phase = "lexing" /\ SurfaceError(filter_next(text, <<>>))

\* the closure returned None: the chain moves on to the Eof item
SurfaceEof(r) ==
    /\ r.tag = "None"
    /\ text' = r.text
    /\ raw' = raw \o r.raws
    /\ phase' = "finished"
    /\ out' = Append(out, eof_item)
    /\ last' = SomeItem(eof_item)
    /\ UNCHANGED <<buf, logged>>

PullEof == phase = "lexing" /\ SurfaceEof(filter_next(text, <<>>))

\* the dispatcher aborted (an unwrap on nothing): the pull never returns
Abort(r) ==
    /\ r.tag = "Panic"
    /\ text' = r.text
    /\ raw' = raw \o r.raws
    /\ phase' = "panicked"
    /\ UNCHANGED <<buf, out, logged, last>>

PullPanic == phase = "lexing" /\ Abort(filter_next(text, <<>>))

\* a pull after Eof: both halves of the chain are exhausted
PullExhausted ==
    /\ phase = "finished"
    /\ last' = NoItem
    /\ UNCHANGED <<buf, text, phase, raw, out, logged>>

(***************************************************************************)
(* The front-end Lexer::run: it pulls the stream to its end through        *)
(* filter_map(..).count().  Each step below is the closure's arm for the   *)
(* item the pull has just yielded (last'); status is "running" until run   *)
(* returns its ExitStatus or the process aborts.                           *)
(***************************************************************************)
\* the token kinds printed as their own text
PlainKinds ==
    {"Semicolon", "And", "Or", "EqualEqual", "NotEqual", "Greater",
     "GreaterEqual", "Less", "LessEqual", "Minus", "Plus", "Assign",
     "SubAssign", "AddAssign", "Colon", "Question", "Comma", "Void", "For",
     "Continue", "Break", "While", "Int", "Bool", "If", "Else", "Return",
     "Len", "Star", "Slash", "Percent", "Not", "LeftParen", "RightParen",
     "CurlyLeft", "CurlyRight", "SquareLeft", "SquareRight", "Increment",
     "Decrement", "Import"}

\* the word printed between the line number and the text of a token
category(kind) ==
    CASE kind \in PlainKinds -> ""
      [] kind = "Identifier" -> "IDENTIFIER"
      [] kind \in {"DecimalLiteral", "HexLiteral"} -> "INTLITERAL"
      [] kind = "StringLiteral" -> "STRINGLITERAL"
      [] kind = "CharLiteral" -> "CHARLITERAL"
      [] kind \in {"True", "False"} -> "BOOLEANLITERAL"
      [] OTHER -> "unreachable"

\* the line println! writes for the token tok
println(tok) ==
    [line |-> position(tok.span)[1], category |-> category(tok.res.kind),
     text |-> fragment(tok.span)]

\* the messages of an error item, one per line of the diagnostics
msgs(e) ==
    IF e.res.kind = "StringLiteral"
    THEN for_each_error(get_string_errors(e.span))
    ELSE <<handle_single_error(e)>>

\* Ok(token): one line on stdout, the closure returns None; the unwrap in
\* string() and the unreachable!() arm abort the process
PrintToken ==
    /\ status = "running"
    /\ IF category(last'.item.res.kind) = "unreachable"
          \/ ~utf8_valid_from(fragment(last'.item.span), 1)
       THEN status' = "panicked" /\ UNCHANGED stdout
       ELSE stdout' = Append(stdout, println(last'.item)) /\ UNCHANGED status
    /\ UNCHANGED <<stderr, err_count>>

\* Err(_): the messages go to stderr, the closure returns Some(()) and count
\* takes it
CountError ==
    /\ status = "running"
    /\ stderr' = stderr \o msgs(last'.item)
    /\ err_count' = err_count + 1
    /\ UNCHANGED <<stdout, status>>

\* Ok(Eof): the closure returns None and writes nothing
SkipEof ==
    /\ status = "running"
    /\ UNCHANGED <<stdout, stderr, err_count, status>>

\* the pull aborted: run never returns an ExitStatus
RunAborts ==
    /\ status = "running"
    /\ status' = "panicked"
    /\ UNCHANGED <<stdout, stderr, err_count>>

\* the stream is exhausted: count returns and run maps it to the ExitStatus
RunReturns ==
    /\ status = "running"
    /\ status' = IF err_count = 0 THEN "Success" ELSE "Fail"
    /\ UNCHANGED <<stdout, stderr, err_count>>

Next ==
    \/ PullToken /\ PrintToken
    \/ PullError /\ CountError
    \/ PullEof /\ SkipEof
    \/ PullPanic /\ RunAborts
    \/ PullExhausted /\ RunReturns

Spec == Init /\ [][Next]_vars

(***************************************************************************)
(* Properties.                                                             *)
(***************************************************************************)
RECURSIVE ConcatFragments(_)
ConcatFragments(steps) ==
    IF steps = <<>> THEN <<>>
    ELSE fragment(Head(steps).item.span) \o ConcatFragments(Tail(steps))

DispatcherItems == [k \in 1..Len(raw) |-> raw[k].item]

TriviaKinds == {"Space", "LineComment", "BlockComment"}

NotTrivia(item) == ~(item.res.ok /\ item.res.kind \in TriviaKinds)

IsErrItem(item) == ~item.res.ok

IsEofItem(item) == item.res.ok /\ item.res.kind = "Eof"

\* the byte at offset i of s follows a backslash that is itself unescaped
RECURSIVE IsEscapedIn(_, _)
IsEscapedIn(s, i) ==
    /\ i >= 1
    /\ at(s, i - 1) = BACKSLASH
    /\ ~IsEscapedIn(s, i - 1)

\* the offsets of the unescaped double quotes of s after its first byte
ClosingQuotes(s) ==
    {i \in 1..(len(s) - 1) : at(s, i) = DQUOTE /\ ~IsEscapedIn(s, i)}

\* the dispatcher outputs for a text that began with a double quote
StringSteps == {k \in 1..Len(raw) : starts_with(raw[k].inp, <<DQUOTE>>)}

\* C1: once the cursor has run from the start to the end of the buffer, the
\* fragments of all dispatcher outputs (trivia and errors included), joined
\* in order, are the buffer itself.
C1_ByteConservation ==
    phase = "finished" => ConcatFragments(raw) = buf

\* C2: pulling never aborts; while items are still coming none of them is
\* Eof; once the stream has finished its last item is the one Eof item, with
\* an empty fragment at the end of the buffer, and a later pull yields nothing.
C2_Termination ==
    /\ phase # "panicked"
    /\ phase = "lexing" => \A i \in 1..Len(out) : ~IsEofItem(out[i])
    /\ phase = "finished" =>
         /\ Len(out) >= 1
         /\ out[Len(out)] = into_spanned(Span(Len(buf), Len(buf)), Ok("Eof"))
         /\ fragment(out[Len(out)].span) = <<>>
         /\ \A i \in 1..(Len(out) - 1) : ~IsEofItem(out[i])
         /\ last.some => last.item = out[Len(out)]

\* C3: every (item, remainder) the dispatcher returned for a non-empty text
\* has a remainder that is a suffix of that text and strictly shorter.
C3_RemainderShrinks ==
    \A k \in 1..Len(raw) :
        /\ ~is_empty(raw[k].inp)
        /\ raw[k].rem.hi = raw[k].inp.hi
        /\ raw[k].rem.lo > raw[k].inp.lo
        /\ raw[k].rem.lo <= raw[k].rem.hi

\* C3 witness: the dispatcher has returned an error item and a trivia item,
\* one of them with bytes left over.
C3_Witness ==
    /\ \E k \in 1..Len(raw) : ~raw[k].item.res.ok /\ ~is_empty(raw[k].rem)
    /\ \E k \in 1..Len(raw) : ~NotTrivia(raw[k].item)

\* C4: the surfaced stream is the dispatcher's outputs without Space,
\* LineComment and BlockComment, in order, followed by Eof once finished.
C4_SurfacedIsFiltered ==
    /\ \A i \in 1..Len(out) : NotTrivia(out[i])
    /\ phase # "finished" => out = SelectSeq(DispatcherItems, NotTrivia)
    /\ phase = "finished" =>
         out = Append(SelectSeq(DispatcherItems, NotTrivia), eof_item)

\* C4 witness: a finished stream whose dispatcher outputs held a trivia
\* item and an unterminated comment, which was surfaced.
C4_Witness ==
    /\ phase = "finished"
    /\ \E k \in 1..Len(raw) : ~NotTrivia(raw[k].item)
    /\ \E i \in 1..Len(out) : out[i].res = Err("UnterminatedComment")

\* C5: what the callback has received so far is the error items surfaced so
\* far: same errors, same spans, same order.
C5_CallbackMirrorsErrors ==
    logged = SelectSeq(out, IsErrItem)

\* C5 witness: two errors have been reported and a well-formed token was
\* surfaced as well.
C5_Witness ==
    /\ Len(logged) >= 2
    /\ \E i \in 1..Len(out) : out[i].res.ok /\ ~IsEofItem(out[i])

\* C6: on a non-empty text the dispatcher returns an item, it neither
\* declines nor aborts; a text that starts with a letter or a digit is taken
\* by the identifier or the integer matcher, never left to the symbol
\* matcher; so the stream ends only when the text is used up.
C6_AlwaysAnItem ==
    /\ phase = "lexing" /\ ~is_empty(text) => token(text).tag = "Some"
    /\ \A k \in 1..Len(raw) :
          is_ascii_alphanumeric(at(raw[k].inp, 0)) =>
              \/ identifier(raw[k].inp).tag = "Some"
              \/ int_literal(raw[k].inp).tag = "Some"
    /\ phase = "finished" => is_empty(text)
    /\ phase # "panicked"

\* C7: an input that begins with a double quote and has no unescaped double
\* quote after it yields one error item over the whole input, then Eof.
C7_UnterminatedStringIsOneError ==
    (/\ phase = "finished"
     /\ Len(buf) >= 1
     /\ buf[1] = DQUOTE
     /\ ClosingQuotes(source) = {})
    => /\ Len(out) = 2
       /\ ~out[1].res.ok
       /\ fragment(out[1].span) = buf
       /\ IsEofItem(out[2])

\* C8: the string literal's fragment ends at, and includes, the first
\* unescaped double quote after the opening one; the rest is the remainder.
C8_StringEndsAtFirstUnescapedQuote ==
    \A k \in StringSteps :
        ClosingQuotes(raw[k].inp) # {} =>
            /\ raw[k].item.span =
                 Span(raw[k].inp.lo, raw[k].inp.lo + Min(ClosingQuotes(raw[k].inp)) + 1)
            /\ raw[k].rem =
                 Span(raw[k].inp.lo + Min(ClosingQuotes(raw[k].inp)) + 1, raw[k].inp.hi)

\* the fragment s ends in an unescaped closing quote
EndsInClosingQuote(s) == len(s) >= 2 /\ (len(s) - 1) \in ClosingQuotes(s)

\* the sub-errors C9 lists for the bytes of s from offset i on
RECURSIVE ListedStringErrors(_, _)
ListedStringErrors(s, i) ==
    IF i >= len(s)
    THEN IF EndsInClosingQuote(s) THEN <<>>
         ELSE <<into_spanned(s, Err("UnterminatedString"))>>
    ELSE (IF IsEscapedIn(s, i)
          THEN IF at(s, i) \notin {110, 116, 92, 39, 34}
               THEN <<into_spanned(Span(s.lo + i, s.lo + i + 1),
                                   ErrV("InvalidEscape", at(s, i)))>>
               ELSE <<>>
          ELSE IF /\ at(s, i) # 92
                  /\ ~(i = len(s) - 1 /\ EndsInClosingQuote(s))
                  /\ at(s, i) \notin ((32..33) \cup (35..38) \cup (40..91) \cup (93..126))
               THEN <<into_spanned(Span(s.lo + i, s.lo + i + 1),
                                   ErrV("InvalidChar", at(s, i)))>>
               ELSE <<>>)
         \o ListedStringErrors(s, i + 1)

\* C9: the second pass yields exactly the listed sub-errors; the literal is
\* an error iff the list is not empty; rendering the error gives one line
\* per listed sub-error.
C9_StringSubErrors ==
    \A k \in StringSteps :
        /\ get_string_errors(raw[k].item.span) = ListedStringErrors(raw[k].item.span, 1)
        /\ raw[k].item.res = Err("StringLiteral")
             <=> ListedStringErrors(raw[k].item.span, 1) # <<>>
        /\ raw[k].item.res = Ok("StringLiteral")
             <=> ListedStringErrors(raw[k].item.span, 1) = <<>>
        /\ ~raw[k].item.res.ok =>
             /\ ~log_err(raw[k].item).panic
             /\ Len(log_err(raw[k].item).lines)
                  = Len(ListedStringErrors(raw[k].item.span, 1))
             /\ Len(log_err(raw[k].item).lines) >= 1

\* C10: a text that starts with a single quote and is shorter than 3 bytes,
\* or has a backslash second and is shorter than 4 bytes, gives
\* Err(UnterminatedChar) over all of it and leaves nothing.
C10_ShortCharIsUnterminated ==
    \A k \in 1..Len(raw) :
        (/\ starts_with(raw[k].inp, <<SQUOTE>>)
         /\ \/ len(raw[k].inp) < 3
            \/ (at(raw[k].inp, 1) = BACKSLASH /\ len(raw[k].inp) < 4))
        => /\ raw[k].item = into_spanned(raw[k].inp, Err("UnterminatedChar"))
           /\ is_empty(raw[k].rem)

\* the steps of the dispatcher on a text that starts with a single quote and
\* is long enough for char_literal to look at a whole literal
LongCharSteps ==
    {k \in 1..Len(raw) :
        /\ starts_with(raw[k].inp, <<SQUOTE>>)
        /\ len(raw[k].inp) >= 3
        /\ at(raw[k].inp, 1) = BACKSLASH => len(raw[k].inp) >= 4}

\* the byte an escape letter stands for
Resolved(c) ==
    CASE c = LOWER_N -> NL
      [] c = LOWER_T -> TAB
      [] OTHER -> c

\* what the rules of character literals give for the text s: the result and
\* the length of the fragment
CharRule(s) ==
    IF at(s, 1) = BACKSLASH
    THEN [n |-> 4,
          res |-> IF at(s, 3) # SQUOTE THEN Err("UnterminatedChar")
                  ELSE IF at(s, 2) \in {LOWER_N, LOWER_T, BACKSLASH, SQUOTE, DQUOTE}
                  THEN OkV("CharLiteral", Resolved(at(s, 2)))
                  ELSE ErrV("InvalidEscape", at(s, 2))]
    ELSE IF at(s, 1) = SQUOTE THEN [n |-> 2, res |-> Err("EmptyChar")]
    ELSE IF at(s, 2) # SQUOTE THEN [n |-> 2, res |-> Err("UnterminatedChar")]
    ELSE [n |-> 3,
          res |-> IF at(s, 1) \in (32..33) \cup (35..38) \cup (40..91) \cup (93..126)
                  THEN OkV("CharLiteral", at(s, 1))
                  ELSE ErrV("InvalidChar", at(s, 1))]

\* C11: on a text that starts with a single quote and is long enough, the
\* item is the one the character-literal rules give (escape resolved, empty,
\* unterminated, invalid) over a fragment of 4, 2 or 3 bytes, and the
\* remainder is exactly the bytes after the fragment.
C11_CharLiteralRules ==
    \A k \in LongCharSteps :
        /\ raw[k].item.res = CharRule(raw[k].inp).res
        /\ raw[k].item.span = Span(raw[k].inp.lo, raw[k].inp.lo + CharRule(raw[k].inp).n)
        /\ raw[k].rem = Span(raw[k].inp.lo + CharRule(raw[k].inp).n, raw[k].inp.hi)

\* an escaped newline literal followed by one more byte has been lexed
C11_Witness ==
    \E k \in LongCharSteps :
        /\ raw[k].item.res = OkV("CharLiteral", NL)
        /\ len(raw[k].item.span) = 4
        /\ len(raw[k].rem) = 1

\* the number of bytes of s from offset i on that lie in the set cls, up to
\* the first one that does not
RECURSIVE RunLen(_, _, _)
RunLen(s, i, cls) ==
    IF i < len(s) /\ at(s, i) \in cls THEN 1 + RunLen(s, i + 1, cls) ELSE 0

DecDigits == 48..57

HexDigits == (48..57) \cup (97..102) \cup (65..70)

\* what the rules of integer literals give for a text s that starts with a
\* digit: the result and the length of the fragment
IntRule(s) ==
    IF len(s) >= 2 /\ at(s, 0) = ZERO /\ at(s, 1) = LOWER_X
    THEN IF RunLen(s, 2, HexDigits) >= 1
         THEN [n |-> 2 + RunLen(s, 2, HexDigits), res |-> Ok("HexLiteral")]
         ELSE [n |-> 2, res |-> Err("EmptyHexLiteral")]
    ELSE [n |-> RunLen(s, 0, DecDigits), res |-> Ok("DecimalLiteral")]

\* C12: on a text whose first byte is a digit the item is 0x plus the maximal
\* hex run, Err(EmptyHexLiteral) over exactly 0x when no hex digit follows,
\* or the maximal decimal run, and the remainder is exactly the bytes after
\* the fragment; on any other first byte int_literal declines.
C12_IntLiteralRules ==
    \A k \in 1..Len(raw) :
        IF at(raw[k].inp, 0) \in DecDigits
        THEN /\ raw[k].item.res = IntRule(raw[k].inp).res
             /\ raw[k].item.span
                  = Span(raw[k].inp.lo, raw[k].inp.lo + IntRule(raw[k].inp).n)
             /\ raw[k].rem
                  = Span(raw[k].inp.lo + IntRule(raw[k].inp).n, raw[k].inp.hi)
             /\ int_literal(raw[k].inp) = Matched(raw[k].item, raw[k].rem)
        ELSE int_literal(raw[k].inp) = Declined

\* a hex literal with a letter digit has been cut before a non-hex letter,
\* which was then lexed as an identifier
C12_Witness ==
    \E k \in 1..(Len(raw) - 1) :
        /\ raw[k].item.res = Ok("HexLiteral")
        /\ len(raw[k].item.span) >= 4
        /\ at(raw[k].item.span, 2) = 97
        /\ raw[k + 1].item.res = Ok("Identifier")
        /\ raw[k + 1].inp = raw[k].rem

LegalSet == (32..126) \cup {9, 10, 13}

AsciiWhitespace == {9, 10, 12, 13, 32}

\* the steps of the dispatcher on a text that begins with a maximal run of
\* bytes outside the legal set followed by an ASCII whitespace byte
RunThenSpaceSteps ==
    {k \in 1..Len(raw) :
        /\ RunLen(raw[k].inp, 0, Byte \ LegalSet) >= 1
        /\ RunLen(raw[k].inp, 0, Byte \ LegalSet) < len(raw[k].inp)
        /\ at(raw[k].inp, RunLen(raw[k].inp, 0, Byte \ LegalSet)) \in AsciiWhitespace}

\* C13: a maximal run of bytes outside the legal set that is followed by a
\* whitespace byte gives one Err(NonAsciiChars) over exactly the run; the
\* whitespace byte starts the remainder and is lexed next as Space.
C13_IllegalRunStopsAtWhitespace ==
    \A k \in RunThenSpaceSteps :
        /\ raw[k].item.res = Err("NonAsciiChars")
        /\ raw[k].item.span
             = Span(raw[k].inp.lo,
                    raw[k].inp.lo + RunLen(raw[k].inp, 0, Byte \ LegalSet))
        /\ raw[k].rem.lo = raw[k].item.span.hi
        /\ raw[k].rem.hi = raw[k].inp.hi
        /\ phase # "lexing" => k < Len(raw)
        /\ k < Len(raw) =>
             /\ raw[k + 1].inp = raw[k].rem
             /\ raw[k + 1].item.res = Ok("Space")
             /\ raw[k + 1].item.span.lo = raw[k].item.span.hi

\* an illegal run of two bytes before a whitespace byte has been reported
\* and the whitespace lexed as Space
C13_Witness ==
    \E k \in RunThenSpaceSteps :
        /\ k < Len(raw)
        /\ len(raw[k].item.span) = 2
        /\ raw[k].item.res = Err("NonAsciiChars")
        /\ raw[k + 1].item.res = Ok("Space")

Letters == (65..90) \cup (97..122)

WordBytes == Letters \cup DecDigits \cup {95}

\* the token a word stands for: the keyword it spells, Identifier otherwise
WordKind(w) ==
    IF \E kw \in DOMAIN KeywordSpellings : KeywordSpellings[kw] = w
    THEN CHOOSE kw \in DOMAIN KeywordSpellings : KeywordSpellings[kw] = w
    ELSE "Identifier"

\* C14: on a text whose first byte is a letter or an underscore the item is
\* the maximal run of letters, digits and underscores, a keyword token iff
\* the run is exactly one of the fourteen reserved spellings and Identifier
\* otherwise; on any other first byte identifier declines.
C14_IdentifierMaximalMunch ==
    \A k \in 1..Len(raw) :
        IF at(raw[k].inp, 0) \in Letters \cup {95}
        THEN /\ raw[k].item.span
                  = Span(raw[k].inp.lo,
                         raw[k].inp.lo + RunLen(raw[k].inp, 0, WordBytes))
             /\ raw[k].rem = Span(raw[k].item.span.hi, raw[k].inp.hi)
             /\ raw[k].item.res = Ok(WordKind(fragment(raw[k].item.span)))
             /\ identifier(raw[k].inp) = Matched(raw[k].item, raw[k].rem)
        ELSE identifier(raw[k].inp) = Declined

\* a reserved spelling followed by one more word byte has been lexed as one
\* Identifier
C14_Witness ==
    \E k \in 1..Len(raw) :
        /\ raw[k].item.res = Ok("Identifier")
        /\ len(raw[k].item.span) >= 3
        /\ \E kw \in DOMAIN KeywordSpellings :
              /\ Len(KeywordSpellings[kw]) < len(raw[k].item.span)
              /\ SubSeq(fragment(raw[k].item.span), 1, Len(KeywordSpellings[kw]))
                   = KeywordSpellings[kw]

TwoByteOperators ==
    [LessEqual |-> <<60, 61>>, GreaterEqual |-> <<62, 61>>,
     EqualEqual |-> <<61, 61>>, NotEqual |-> <<33, 61>>,
     AddAssign |-> <<43, 61>>, SubAssign |-> <<45, 61>>,
     And |-> <<38, 38>>, Or |-> <<124, 124>>,
     Decrement |-> <<45, 45>>, Increment |-> <<43, 43>>]

OneByteOperators ==
    [Plus |-> 43, Minus |-> 45, Star |-> 42, Slash |-> 47, Percent |-> 37,
     Not |-> 33, Semicolon |-> 59, Less |-> 60, Greater |-> 62, Assign |-> 61,
     CurlyLeft |-> 123, CurlyRight |-> 125, SquareLeft |-> 91,
     SquareRight |-> 93, Comma |-> 44, LeftParen |-> 40, RightParen |-> 41,
     Question |-> 63, Colon |-> 58]

StartsWithTwoByteOperator(s) ==
    /\ len(s) >= 2
    /\ \E op \in DOMAIN TwoByteOperators :
          TwoByteOperators[op] = <<at(s, 0), at(s, 1)>>

\* what the rules of operators give for a text s whose first byte is not
\* alphanumeric: the result and the length of the fragment
SymbolRule(s) ==
    IF StartsWithTwoByteOperator(s)
    THEN [n |-> 2,
          res |-> Ok(CHOOSE op \in DOMAIN TwoByteOperators :
                        TwoByteOperators[op] = <<at(s, 0), at(s, 1)>>)]
    ELSE IF \E op \in DOMAIN OneByteOperators : OneByteOperators[op] = at(s, 0)
    THEN [n |-> 1,
          res |-> Ok(CHOOSE op \in DOMAIN OneByteOperators :
                        OneByteOperators[op] = at(s, 0))]
    ELSE [n |-> 1, res |-> ErrV("UnexpectedChar", at(s, 0))]

\* every matcher the dispatcher tries before symbol declines on s
ReachesSymbol(s) ==
    /\ non_ascii_graphic_chars(s) = Declined
    /\ skip_spaces(s) = Declined
    /\ skip_line_comment(s) = Declined
    /\ skip_block_comment(s) = Declined
    /\ identifier(s) = Declined
    /\ int_literal(s) = Declined
    /\ char_literal(s) = Declined
    /\ string_literal(s) = Declined

\* C15: on a text that starts with one of the ten two-byte operators symbol
\* gives that operator over 2 bytes, never the one-byte token of its first
\* byte; otherwise the one-byte operator or delimiter of the first byte, or
\* Err(UnexpectedChar(b)) over exactly one byte for any other
\* non-alphanumeric byte b; the dispatcher returns what symbol gives
\* whenever it gets as far as symbol.
C15_SymbolLongestOperator ==
    \A k \in 1..Len(raw) :
        /\ at(raw[k].inp, 0) \notin Letters \cup DecDigits =>
             symbol(raw[k].inp)
               = Matched(into_spanned(Span(raw[k].inp.lo,
                                           raw[k].inp.lo + SymbolRule(raw[k].inp).n),
                                      SymbolRule(raw[k].inp).res),
                         Span(raw[k].inp.lo + SymbolRule(raw[k].inp).n,
                              raw[k].inp.hi))
        /\ ReachesSymbol(raw[k].inp) =>
             /\ at(raw[k].inp, 0) \notin Letters \cup DecDigits
             /\ symbol(raw[k].inp) = Matched(raw[k].item, raw[k].rem)

\* the dispatcher has returned a two-byte operator with more text after it,
\* and an unexpected byte as a one-byte error
C15_Witness ==
    \E k \in 1..Len(raw), j \in 1..Len(raw) :
        /\ ReachesSymbol(raw[k].inp)
        /\ raw[k].item.res = Ok("LessEqual")
        /\ len(raw[k].item.span) = 2
        /\ len(raw[k].rem) >= 1
        /\ ReachesSymbol(raw[j].inp)
        /\ raw[j].item.res = ErrV("UnexpectedChar", 35)
        /\ len(raw[j].item.span) = 1

\* the surfaced items that are tokens other than Eof, in stream order
SurfacedTokens == SelectSeq(out, LAMBDA it : it.res.ok /\ it.res.kind # "Eof")

SurfacedErrors == SelectSeq(out, IsErrItem)

\* C16: once the front-end has stopped, its exit status is Success iff the
\* stream holds no error item and Fail iff it holds at least one; stdout has
\* exactly one line per surfaced token that is neither an error nor Eof, in
\* stream order.
C16_CliExitAndStdout ==
    /\ status # "running" =>
         /\ status = "Success" <=> SurfacedErrors = <<>>
         /\ status = "Fail" <=> SurfacedErrors # <<>>
    /\ Len(stdout) = Len(SurfacedTokens)
    /\ \A i \in 1..Len(stdout) :
         /\ stdout[i].text = fragment(SurfacedTokens[i].span)
         /\ stdout[i].line = position(SurfacedTokens[i].span)[1]

\* the steps of the dispatcher on a text that starts with the opener /*
BlockCommentSteps ==
    {k \in 1..Len(raw) :
        len(raw[k].inp) >= 2 /\ at(raw[k].inp, 0) = SLASH /\ at(raw[k].inp, 1) = STAR}

\* the offsets in s, from 2 on, at which the closer */ begins
Closers(s) ==
    {i \in 2..(len(s) - 2) : at(s, i) = STAR /\ at(s, i + 1) = SLASH}

C18_SurfacedSpansInOrder ==
    /\ \A n \in 1..(Len(out) - 1) : out[n].span.hi <= out[n + 1].span.lo
    /\ \A n \in 1..Len(out) :
         /\ 0 <= out[n].span.lo /\ out[n].span.hi <= Len(buf)
         /\ IF IsEofItem(out[n])
            THEN out[n].span = Span(Len(buf), Len(buf))
            ELSE out[n].span.lo < out[n].span.hi

\* three items and Eof have been surfaced, with trivia skipped between two
\* of them
C18_Witness ==
    /\ Len(out) >= 4
    /\ IsEofItem(out[Len(out)])
    /\ \E n \in 1..(Len(out) - 2) : out[n].span.hi < out[n + 1].span.lo

====
